---- MODULE Spec2Model ----
(***************************************************************************)
(* A model of the Expo push client (package expo).                         *)
(*                                                                         *)
(* The repository holds several historical variants of PushClient.  The    *)
(* model covers the multi-recipient client that counts expected receipts   *)
(* (src/unnamed/part_001, lines 1-173), the client with a full URL         *)
(* override and 401/403 classification (src/unnamed/part_001, lines        *)
(* 174-353), the single-token client that posts with http.Post            *)
(* (src/unnamed/part_002), and the token construction and the receipt      *)
(* validation of src/unnamed/part_000.                                     *)
(*                                                                         *)
(* Go values are modelled as follows.                                      *)
(*   - a slice or a map that may be nil is a record [isNil, items];        *)
(*   - a pointer that may be nil is a record with an isNil field;          *)
(*   - an error is a record with a "type" field, NoError for nil;          *)
(*   - a string built by fmt.Sprintf / fmt.Errorf is the record            *)
(*     [format, args] of its format string and its arguments;              *)
(*   - a map[string]string is a set of <<key, value>> pairs;               *)
(*   - the argument and the result of NewExponentPushToken are sequences   *)
(*     of characters, so that the prefix test is computed.                 *)
(***************************************************************************)
EXTENDS Integers, Sequences, FiniteSets, TLC

VARIABLES
    client,     \* the PushClient built by NewPushClient
    op,         \* the operation that ran last ("none" after construction)
    messages,   \* the caller's batch, as it is after the call
    transport,  \* what c.httpClient.Do answered (or would have answered)
    requests,   \* the HTTP requests handed to c.httpClient.Do by the call
    decoded,    \* TRUE iff the call ran json Decode on the response body
    panicked,   \* TRUE iff the call ended in a runtime panic
    receipts,   \* first return value: the []PushResponse (the PushResponse
                \* of a single-token Publish)
    err,        \* second return value: the error
    receiver,   \* the receipt ValidateResponse ran on: its index in receipts
    submitted,  \* the caller's batch, as it was when the call was made
    rawToken,   \* the string handed to NewExponentPushToken
    pushToken   \* first return value of NewExponentPushToken

vars == <<client, op, messages, transport, requests, decoded, panicked,
          receipts, err, receiver, submitted, rawToken, pushToken>>

-----------------------------------------------------------------------------
(* Bounds of the model *)

\* most messages in a batch
MaxMsgs == 2
\* most recipient tokens in a batch, over all its messages
MaxRecipients == 3

-----------------------------------------------------------------------------
(* Go values *)

NilSlice == [isNil |-> TRUE, items |-> <<>>]
Slice(s) == [isNil |-> FALSE, items |-> s]
len(s) == Len(s.items)

NilMap == [isNil |-> TRUE, items |-> {}]
Map(kv) == [isNil |-> FALSE, items |-> kv]
\* m[k] on a map[string]string: the zero value "" for a missing key or a nil map
MapGet(m, k) ==
    IF \E p \in m.items : p[1] = k
    THEN (CHOOSE p \in m.items : p[1] = k)[2]
    ELSE ""

Sprintf(format, args) == [format |-> format, args |-> args]
Text(s) == Sprintf(s, <<>>)

NoError == [type |-> "nil"]
\* errors.New
ErrorsNew(s) == [type |-> "errorString", Message |-> Text(s)]
\* fmt.Errorf
Errorf(format, args) == [type |-> "errorString", Message |-> Sprintf(format, args)]

-----------------------------------------------------------------------------
(* part_000: tokens, messages, receipts *)

DefaultPriority == "default"
NormalPriority == "normal"
HighPriority == "high"

SuccessStatus == "ok"
ErrorDeviceNotRegistered == "DeviceNotRegistered"
ErrorMessageTooBig == "MessageTooBig"
ErrorMessageRateExceeded == "MessageRateExceeded"

\* The zero value of PushMessage (To is a list of tokens in the multi-recipient
\* clients).
ZeroPushMessage ==
    [To |-> <<>>, Body |-> "", Data |-> NilMap, Sound |-> "", Title |-> "",
     TTLSeconds |-> 0, Expiration |-> 0, Priority |-> "", Badge |-> 0,
     ChannelID |-> ""]

\* PushResponse: one receipt.
PushResponse(pm, status, message, details) ==
    [PushMessage |-> pm, Status |-> status, Message |-> message,
     Details |-> details]

\* Response: the decoded envelope, behind a pointer that may be nil.
NilResponse == [isNil |-> TRUE, Data |-> NilSlice, Errors |-> NilSlice]
Response(data, errors) == [isNil |-> FALSE, Data |-> data, Errors |-> errors]

NewPushServerError(message, response, responseData, errors) ==
    [type |-> "PushServerError", Message |-> message, Response |-> response,
     ResponseData |-> responseData, Errors |-> errors]

\* A *PushResponse: the place of a receipt in the slice that holds it.
NilPointer == [isNil |-> TRUE, addr |-> 0]
Pointer(i) == [isNil |-> FALSE, addr |-> i]

\* Lines 98-100.
isSuccess(r) == r.Status = SuccessStatus

\* A validation that does not know MessageRateExceeded.
ValidateResponseNoRateExceeded(heap, p) ==
    LET r == heap[p.addr]
        e == MapGet(r.Details, "error")
    IN  IF isSuccess(r) THEN NoError
        ELSE IF ~r.Details.isNil /\ e = ErrorDeviceNotRegistered
        THEN [type |-> "DeviceNotRegisteredError", Response |-> p]
        ELSE IF ~r.Details.isNil /\ e = ErrorMessageTooBig
        THEN [type |-> "MessageTooBigError", Response |-> p]
        ELSE [type |-> "PushResponseError", Response |-> p]

\* Lines 105-130: r.ValidateResponse() for the receipt r = heap[p.addr].  The
\* specific errors embed a copy of the PushResponseError, which holds the
\* same pointer.
ValidateResponse(heap, p) ==
    LET r == heap[p.addr]
        e == MapGet(r.Details, "error")
    IN  IF isSuccess(r) THEN NoError
        ELSE IF ~r.Details.isNil /\ e = ErrorDeviceNotRegistered
        THEN [type |-> "DeviceNotRegisteredError", Response |-> p]
        ELSE IF ~r.Details.isNil /\ e = ErrorMessageTooBig
        THEN [type |-> "MessageTooBigError", Response |-> p]
        ELSE IF ~r.Details.isNil /\ e = ErrorMessageRateExceeded
        THEN [type |-> "MessageRateExceededError", Response |-> p]
        ELSE [type |-> "PushResponseError", Response |-> p]

\* Lines 137-142: the text of a PushResponseError and of the errors that
\* embed it.
Error(heap, e) ==
    IF ~e.Response.isNil THEN heap[e.Response.addr].Message
    ELSE "Unknown push response error"

-----------------------------------------------------------------------------
(* part_000, lines 9-21: push tokens *)

\* The string literal "ExponentPushToken" of line 17, character by character.
TokenPrefix ==
    <<"E", "x", "p", "o", "n", "e", "n", "t", "P", "u", "s", "h",
      "T", "o", "k", "e", "n">>

\* strings.HasPrefix
HasPrefix(s, prefix) ==
    Len(s) >= Len(prefix) /\ SubSeq(s, 1, Len(prefix)) = prefix

\* strings.Contains
Contains(s, substr) ==
    \E i \in 0..(Len(s) - Len(substr)) : SubSeq(s, i + 1, i + Len(substr)) = substr

\* Line 13.
ErrMalformedToken == ErrorsNew("Token should start with ExponentPushToken")

\* A constructor that accepts the prefix anywhere in the string.
NewExponentPushTokenContains(token) ==
    IF ~Contains(token, TokenPrefix)
    THEN [token |-> <<>>, err |-> ErrMalformedToken]
    ELSE [token |-> token, err |-> NoError]

\* Lines 16-21.
NewExponentPushToken(token) ==
    IF ~HasPrefix(token, TokenPrefix)
    THEN [token |-> <<>>, err |-> ErrMalformedToken]
    ELSE [token |-> token, err |-> NoError]

-----------------------------------------------------------------------------
(* encoding/json, as far as the client uses it *)

\* JSON values are records [kind, value]: kind is "absent" (the key is
\* missing), "null", or the JSON type of the value.
JAbsentString == [kind |-> "absent", value |-> ""]
JString(s) == [kind |-> "string", value |-> s]
JAbsentObject == [kind |-> "absent", value |-> {}]
JObject(kv) == [kind |-> "object", value |-> kv]
JAbsentArray == [kind |-> "absent", value |-> <<>>]
JNullArray == [kind |-> "null", value |-> <<>>]
JArray(s) == [kind |-> "array", value |-> s]

\* A JSON object into a map[string]string; an absent or null key leaves the
\* map nil.
DecodeMap(w) ==
    IF w.kind \in {"absent", "null"} THEN NilMap ELSE Map(w.value)

\* A JSON string into a string; an absent or null key leaves it "".
DecodeString(w) ==
    IF w.kind \in {"absent", "null"} THEN "" ELSE w.value

\* A JSON object into a PushResponse: the keys status, message and details
\* fill their fields, PushMessage keeps its zero value.
DecodeReceipt(w) ==
    PushResponse(ZeroPushMessage, DecodeString(w.status),
                 DecodeString(w.message), DecodeMap(w.details))

\* A JSON array into a []PushResponse; an absent or null key leaves the slice
\* nil.
DecodeData(w) ==
    IF w.kind \in {"absent", "null"} THEN NilSlice
    ELSE Slice([i \in 1..Len(w.value) |-> DecodeReceipt(w.value[i])])

\* A JSON array into a []map[string]string; an absent or null key leaves the
\* slice nil.
DecodeErrors(w) ==
    IF w.kind \in {"absent", "null"} THEN NilSlice
    ELSE Slice([i \in 1..Len(w.value) |-> DecodeMap(w.value[i])])

\* json.NewDecoder(body).Decode(&r) with var r *Response.
\*   "garbage": not JSON            -> a syntax error
\*   "array":   a JSON array        -> an unmarshal type error
\*   "null":    the JSON literal    -> no error, r stays nil
\*   "object":  a JSON object       -> r points to the decoded Response
Decode(body) ==
    CASE body.kind = "garbage" ->
           [err |-> [type |-> "json.SyntaxError"], r |-> NilResponse]
      [] body.kind = "array" ->
           [err |-> [type |-> "json.UnmarshalTypeError"],
            r |-> Response(NilSlice, NilSlice)]
      [] body.kind = "null" ->
           [err |-> NoError, r |-> NilResponse]
      [] body.kind = "object" ->
           [err |-> NoError,
            r |-> Response(DecodeData(body.data), DecodeErrors(body.errors))]

\* json.Marshal(messages): one object per message; the omitempty fields are
\* left out when they hold their zero value.  It cannot fail for PushMessage.
MarshalMessage(m) ==
    [to |-> m.To, body |-> m.Body,
     data |-> IF m.Data.isNil \/ m.Data.items = {} THEN JAbsentObject
              ELSE JObject(m.Data.items),
     sound |-> IF m.Sound = "" THEN "absent" ELSE m.Sound,
     title |-> IF m.Title = "" THEN "absent" ELSE m.Title,
     ttl |-> IF m.TTLSeconds = 0 THEN "absent" ELSE ToString(m.TTLSeconds),
     expiration |-> IF m.Expiration = 0 THEN "absent" ELSE ToString(m.Expiration),
     priority |-> IF m.Priority = "" THEN "absent" ELSE m.Priority,
     badge |-> IF m.Badge = 0 THEN "absent" ELSE ToString(m.Badge),
     channelId |-> IF m.ChannelID = "" THEN "absent" ELSE m.ChannelID]

Marshal(msgs) == [i \in 1..Len(msgs) |-> MarshalMessage(msgs[i])]

-----------------------------------------------------------------------------
(* part_001, lines 1-173: the multi-recipient client *)

DefaultHost == "https://exp.host"
DefaultBaseAPIURL == "/--/api/v2"
DefaultHTTPClient == "DefaultHTTPClient"

NilConfig == [isNil |-> TRUE, Host |-> "", APIURL |-> "", AccessToken |-> "",
              HTTPClient |-> "nil"]
ClientConfig(host, apiURL, accessToken, httpClient) ==
    [isNil |-> FALSE, Host |-> host, APIURL |-> apiURL,
     AccessToken |-> accessToken, HTTPClient |-> httpClient]

NewPushClient(config) ==
    [host |-> IF ~config.isNil /\ config.Host # "" THEN config.Host
              ELSE DefaultHost,
     apiURL |-> IF ~config.isNil /\ config.APIURL # "" THEN config.APIURL
                ELSE DefaultBaseAPIURL,
     httpClient |-> IF ~config.isNil /\ config.HTTPClient # "nil"
                    THEN config.HTTPClient ELSE DefaultHTTPClient,
     accessToken |-> IF ~config.isNil /\ config.AccessToken # ""
                     THEN config.AccessToken ELSE ""]

\* Hosts that make the request URL unparsable, so that http.NewRequest fails.
MalformedHosts == {"%zz"}

\* http.NewRequest("POST", url, body): fails when the URL does not parse.
NewRequest(host, path, body) ==
    IF host \in MalformedHosts
    THEN [err |-> [type |-> "url.Error"],
          req |-> [method |-> "", url |-> "", body |-> <<>>,
                   contentType |-> "", authorization |-> ""]]
    ELSE [err |-> NoError,
          req |-> [method |-> "POST", url |-> host \o path, body |-> body,
                   contentType |-> "", authorization |-> ""]]

checkStatus(resp) ==
    IF resp.StatusCode >= 200 /\ resp.StatusCode <= 299
    THEN NoError
    ELSE Errorf("Invalid response (%d %s)", <<resp.StatusCode, resp.Status>>)

\* The outcome of one call: the two return values and what the call did on
\* the way.
Outcome(rs, e, reqs, dec, pan, msgs) ==
    [receipts |-> rs, err |-> e, requests |-> reqs, decoded |-> dec,
     panicked |-> pan, messages |-> msgs]

\* The validation loop without its check of the tokens.
RECURSIVE validateSkipsTokens(_, _, _)
validateSkipsTokens(msgs, i, expectedReceipts) ==
    IF i > Len(msgs) THEN [err |-> NoError, expectedReceipts |-> expectedReceipts]
    ELSE IF Len(msgs[i].To) = 0
         THEN [err |-> ErrorsNew("No recipients"), expectedReceipts |-> 0]
    ELSE validateSkipsTokens(msgs, i + 1, expectedReceipts + Len(msgs[i].To))

\* Lines 91-103: the validation loop.  It returns the first error it meets,
\* or the number of receipts to expect.
RECURSIVE validate(_, _, _)
validate(msgs, i, expectedReceipts) ==
    IF i > Len(msgs) THEN [err |-> NoError, expectedReceipts |-> expectedReceipts]
    ELSE IF Len(msgs[i].To) = 0
         THEN [err |-> ErrorsNew("No recipients"), expectedReceipts |-> 0]
    ELSE IF \E k \in 1..Len(msgs[i].To) : msgs[i].To[k] = ""
         THEN [err |-> ErrorsNew("Invalid push token"), expectedReceipts |-> 0]
    ELSE validate(msgs, i + 1, expectedReceipts + Len(msgs[i].To))

\* The copies without the narrowing of To to one token.
RECURSIVE flattenWhole(_, _)
flattenWhole(msgs, i) ==
    IF i > Len(msgs) THEN <<>>
    ELSE [k \in 1..Len(msgs[i].To) |-> msgs[i]] \o flattenWhole(msgs, i + 1)

\* Lines 155-163: the single-recipient copies of the messages, in the order
\* the two nested loops visit them.
RECURSIVE flatten(_, _)
flatten(msgs, i) ==
    IF i > Len(msgs) THEN <<>>
    ELSE [k \in 1..Len(msgs[i].To) |-> [msgs[i] EXCEPT !.To = <<msgs[i].To[k]>>]]
         \o flatten(msgs, i + 1)

\* A transport call that tries once more after a network error.
DoWithRetry(req, tr) ==
    [requests |-> IF tr.err # NoError THEN <<req, req>> ELSE <<req>>,
     resp |-> tr.resp, err |-> tr.err]

\* Line 123: the one place where the call hands a request to the transport.
Do(req, tr) == [requests |-> <<req>>, resp |-> tr.resp, err |-> tr.err]

\* A check for request-level errors that gives way to a data array.
hasErrorsWithoutData(r) == ~r.Errors.isNil /\ r.Data.isNil

\* Line 142: the envelope carries request-level errors.
hasErrors(r) == ~r.Errors.isNil

\* No check for a missing data field.
missingDataUnchecked(r) == FALSE

\* Line 146: the envelope has no data.
missingData(r) == r.Data.isNil

\* A sanity check that only guards against too few receipts.
mismatchedOnlyFewer(expectedReceipts, data) == expectedReceipts > len(data)

\* Line 150: the sanity check of the number of receipts.
mismatched(expectedReceipts, data) == expectedReceipts # len(data)

\* Lines 151-153: the mismatched-count error.
mismatchError(msgs, expectedReceipts, resp, r) ==
    NewPushServerError(
        Sprintf("Mismatched response length. Expected %d receipts but only received %d",
                <<Len(msgs), len(r.Data)>>),
        resp, r, NilSlice)

\* A reconciliation that fails the call when a receipt is not a success.
reconcileValidating(msgs, data) ==
    LET flat == flatten(msgs, 1)
    IN  IF Len(flat) > len(data)
        THEN [receipts |-> NilSlice, err |-> NoError, panicked |-> TRUE,
              messages |-> msgs]
        ELSE IF \E i \in 1..len(data) : data.items[i].Status # SuccessStatus
        THEN [receipts |-> NilSlice,
              err |-> [type |-> "PushResponseError"], panicked |-> FALSE,
              messages |-> msgs]
        ELSE [receipts |->
                  Slice([i \in 1..len(data) |->
                            IF i <= Len(flat)
                            THEN [data.items[i] EXCEPT !.PushMessage = flat[i]]
                            ELSE data.items[i]]),
              err |-> NoError, panicked |-> FALSE, messages |-> msgs]

\* The loops of lines 155-163 with the narrowing done on the batch itself
\* (messages[j].To = []ExponentPushToken{to} before the copy): every message
\* is left with its last recipient only.
reconcileInPlace(msgs, data) ==
    LET flat == flatten(msgs, 1)
    IN  IF Len(flat) > len(data)
        THEN [receipts |-> NilSlice, err |-> NoError, panicked |-> TRUE,
              messages |-> msgs]
        ELSE [receipts |->
                  Slice([i \in 1..len(data) |->
                            IF i <= Len(flat)
                            THEN [data.items[i] EXCEPT !.PushMessage = flat[i]]
                            ELSE data.items[i]]),
              err |-> NoError, panicked |-> FALSE,
              messages |-> [j \in 1..Len(msgs) |->
                              [msgs[j] EXCEPT !.To = <<msgs[j].To[Len(msgs[j].To)]>>]]]

\* Lines 155-164: receipt i gets the i-th single-recipient copy, and the
\* receipts are returned with a nil error.  Writing r.Data[i] past the end of
\* the slice is an index-out-of-range panic.  The loop variables msg and to
\* are copies, the stores go to r.Data[i].PushMessage and to its To field,
\* which receives a new one-element slice: no store reaches the caller's
\* batch or the backing array of a message's To, so the batch is as it was.
reconcile(msgs, data) ==
    LET flat == flatten(msgs, 1)
    IN  IF Len(flat) > len(data)
        THEN [receipts |-> NilSlice, err |-> NoError, panicked |-> TRUE,
              messages |-> msgs]
        ELSE [receipts |->
                  Slice([i \in 1..len(data) |->
                            IF i <= Len(flat)
                            THEN [data.items[i] EXCEPT !.PushMessage = flat[i]]
                            ELSE data.items[i]]),
              err |-> NoError, panicked |-> FALSE, messages |-> msgs]

\* Lines 87-165.
publishInternal(c, msgs, tr) ==
    LET v == validate(msgs, 1, 0)
        jsonBytes == Marshal(msgs)
        nr == NewRequest(c.host, c.apiURL \o "/push/send", jsonBytes)
        req == [nr.req EXCEPT !.contentType = "application/json",
                              !.authorization =
                                  IF c.accessToken # ""
                                  THEN "Bearer " \o c.accessToken ELSE ""]
        sent == Do(req, tr)
        resp == sent.resp
        d == Decode(resp.Body)
        r == d.r
        done == reconcile(msgs, r.Data)
    IN  IF v.err # NoError
        THEN Outcome(NilSlice, v.err, <<>>, FALSE, FALSE, msgs)
        ELSE IF nr.err # NoError
        THEN Outcome(NilSlice, nr.err, <<>>, FALSE, FALSE, msgs)
        ELSE IF sent.err # NoError
        THEN Outcome(NilSlice, sent.err, sent.requests, FALSE, FALSE, msgs)
        ELSE IF checkStatus(resp) # NoError
        THEN Outcome(NilSlice, checkStatus(resp), sent.requests, FALSE, FALSE, msgs)
        ELSE IF d.err # NoError
        THEN Outcome(NilSlice, d.err, sent.requests, TRUE, FALSE, msgs)
        ELSE IF r.isNil
        \* r.Errors on a nil *Response: nil pointer dereference
        THEN Outcome(NilSlice, NoError, sent.requests, TRUE, TRUE, msgs)
        ELSE IF hasErrors(r)
        THEN Outcome(NilSlice,
                     NewPushServerError(Text("Invalid server response"),
                                        resp, r, r.Errors),
                     sent.requests, TRUE, FALSE, msgs)
        ELSE IF missingData(r)
        THEN Outcome(NilSlice,
                     NewPushServerError(Text("Invalid server response"),
                                        resp, r, NilSlice),
                     sent.requests, TRUE, FALSE, msgs)
        ELSE IF mismatched(v.expectedReceipts, r.Data)
        THEN Outcome(NilSlice, mismatchError(msgs, v.expectedReceipts, resp, r),
                     sent.requests, TRUE, FALSE, msgs)
        ELSE Outcome(done.receipts, done.err, sent.requests, TRUE,
                     done.panicked, done.messages)

\* Lines 83-85.
PublishMultiple(c, msgs, tr) == publishInternal(c, msgs, tr)

\* Publish as the single-token clients have it: only the first receipt comes
\* back.
PublishFirstOnly(c, message, tr) ==
    LET out == PublishMultiple(c, <<message>>, tr)
    IN  IF out.err # NoError \/ out.receipts.isNil
        THEN [out EXCEPT !.receipts = NilSlice]
        ELSE [out EXCEPT !.receipts = Slice(SubSeq(out.receipts.items, 1, 1))]

\* Lines 71-77: the batch of the one message; an error comes back with nil
\* receipts.
Publish(c, message, tr) ==
    LET out == PublishMultiple(c, <<message>>, tr)
    IN  IF out.err # NoError THEN [out EXCEPT !.receipts = NilSlice] ELSE out

-----------------------------------------------------------------------------
(* part_001, lines 174-353: the client with a URL override *)

NilConfigURL == [isNil |-> TRUE, Host |-> "", APIURL |-> "", AccessToken |-> "",
                 HTTPClient |-> "nil", URL |-> ""]
ClientConfigURL(host, apiURL, accessToken, httpClient, url) ==
    [isNil |-> FALSE, Host |-> host, APIURL |-> apiURL,
     AccessToken |-> accessToken, HTTPClient |-> httpClient, URL |-> url]

NewPushClientURL(config) ==
    [host |-> IF ~config.isNil /\ config.Host # "" THEN config.Host
              ELSE DefaultHost,
     apiURL |-> IF ~config.isNil /\ config.APIURL # "" THEN config.APIURL
                ELSE DefaultBaseAPIURL,
     httpClient |-> IF ~config.isNil /\ config.HTTPClient # "nil"
                    THEN config.HTTPClient ELSE DefaultHTTPClient,
     accessToken |-> IF ~config.isNil /\ config.AccessToken # ""
                     THEN config.AccessToken ELSE "",
     url |-> IF ~config.isNil /\ config.URL # "" THEN config.URL ELSE ""]

\* A status check that knows 401 only.
checkStatusOnly401(resp) ==
    IF resp.StatusCode >= 200 /\ resp.StatusCode <= 299
    THEN NoError
    ELSE IF resp.StatusCode = 401
    THEN Errorf("invalid access token %s", <<resp.StatusCode>>)
    ELSE Errorf("invalid response %s", <<resp.Status>>)

\* Lines 343-353.
checkStatusURL(resp) ==
    IF resp.StatusCode >= 200 /\ resp.StatusCode <= 299
    THEN NoError
    ELSE IF resp.StatusCode = 401 \/ resp.StatusCode = 403
    THEN Errorf("invalid access token %s", <<resp.StatusCode>>)
    ELSE Errorf("invalid response %s", <<resp.Status>>)

\* Lines 269-279: the validation loop.
RECURSIVE validateURL(_, _)
validateURL(msgs, i) ==
    IF i > Len(msgs) THEN NoError
    ELSE IF Len(msgs[i].To) = 0 THEN ErrorsNew("No recipients")
    ELSE IF \E k \in 1..Len(msgs[i].To) : msgs[i].To[k] = ""
         THEN ErrorsNew("Invalid push token")
    ELSE validateURL(msgs, i + 1)

\* Lines 268-341.
publishInternalURL(c, msgs, tr) ==
    LET verr == validateURL(msgs, 1)
        jsonBytes == Marshal(msgs)
        nr == IF c.url # ""
              THEN NewRequest(c.url, "", jsonBytes)
              ELSE NewRequest(c.host, c.apiURL \o "/push/send", jsonBytes)
        req == [nr.req EXCEPT !.contentType = "application/json",
                              !.authorization =
                                  IF c.accessToken # ""
                                  THEN "Bearer " \o c.accessToken ELSE ""]
        resp == tr.resp
        d == Decode(resp.Body)
        r == d.r
    IN  IF verr # NoError
        THEN Outcome(NilSlice, verr, <<>>, FALSE, FALSE, msgs)
        ELSE IF nr.err # NoError
        THEN Outcome(NilSlice, nr.err, <<>>, FALSE, FALSE, msgs)
        ELSE IF tr.err # NoError
        THEN Outcome(NilSlice, tr.err, <<req>>, FALSE, FALSE, msgs)
        ELSE IF checkStatusURL(resp) # NoError
        THEN Outcome(NilSlice, checkStatusURL(resp), <<req>>, FALSE, FALSE, msgs)
        ELSE IF d.err # NoError
        THEN Outcome(NilSlice, d.err, <<req>>, TRUE, FALSE, msgs)
        ELSE IF r.isNil
        \* r.Errors on a nil *Response: nil pointer dereference
        THEN Outcome(NilSlice, NoError, <<req>>, TRUE, TRUE, msgs)
        ELSE IF ~r.Errors.isNil
        THEN Outcome(NilSlice,
                     NewPushServerError(Text("Invalid server response"),
                                        resp, r, r.Errors),
                     <<req>>, TRUE, FALSE, msgs)
        ELSE IF r.Data.isNil
        THEN Outcome(NilSlice,
                     NewPushServerError(Text("Invalid server response"),
                                        resp, r, NilSlice),
                     <<req>>, TRUE, FALSE, msgs)
        ELSE IF Len(msgs) # len(r.Data)
        THEN Outcome(NilSlice,
                     NewPushServerError(
                         Sprintf("Mismatched response length. Expected %d receipts but only received %d",
                                 <<Len(msgs), len(r.Data)>>),
                         resp, r, NilSlice),
                     <<req>>, TRUE, FALSE, msgs)
        ELSE Outcome(Slice([i \in 1..len(r.Data) |->
                               [r.Data.items[i] EXCEPT !.PushMessage = msgs[i]]]),
                     NoError, <<req>>, TRUE, FALSE, msgs)

\* Lines 264-266.
PublishMultipleURL(c, msgs, tr) == publishInternalURL(c, msgs, tr)

\* Lines 252-258: the first receipt of the one-message batch, PushResponse{}
\* with the error when the batch failed.  The result stands in the receipts
\* field of the outcome.
PublishURL(c, message, tr) ==
    LET out == PublishMultipleURL(c, <<message>>, tr)
    IN  IF out.panicked THEN out
        ELSE IF out.err # NoError
        THEN [out EXCEPT !.receipts = PushResponse(ZeroPushMessage, "", "", NilMap)]
        ELSE [out EXCEPT !.receipts = out.receipts.items[1]]

-----------------------------------------------------------------------------
(* part_002: the single-token client that posts with http.Post *)

\* PushMessage{} where To is one ExponentPushToken (part_000, lines 54-65).
ZeroPushMessagePost == [ZeroPushMessage EXCEPT !.To = ""]
\* PushResponse{}
ZeroPushResponse == PushResponse(ZeroPushMessagePost, "", "", NilMap)

NilConfigPost == [isNil |-> TRUE, host |-> "", apiURL |-> ""]
ClientConfigPost(host, apiURL) == [isNil |-> FALSE, host |-> host, apiURL |-> apiURL]

\* Lines 34-47.
NewPushClientPost(config) ==
    [host |-> IF ~config.isNil /\ config.host # "" THEN config.host
              ELSE DefaultHost,
     apiURL |-> IF ~config.isNil /\ config.apiURL # "" THEN config.apiURL
                ELSE DefaultBaseAPIURL]

\* Lines 71-75: the validation loop.
RECURSIVE validatePost(_, _)
validatePost(msgs, i) ==
    IF i > Len(msgs) THEN NoError
    ELSE IF msgs[i].To = "" THEN ErrorsNew("Invalid push token")
    ELSE validatePost(msgs, i + 1)

\* http.Post(url, contentType, body): builds the request, which fails when
\* the URL does not parse, and hands it to the default client.
Post(host, path, contentType, body, tr) ==
    LET nr == NewRequest(host, path, body)
    IN  IF nr.err # NoError
        THEN [err |-> nr.err, resp |-> tr.resp, requests |-> <<>>]
        ELSE [err |-> tr.err, resp |-> tr.resp,
              requests |-> <<[nr.req EXCEPT !.contentType = contentType]>>]

\* Lines 122-127.
checkStatusPost(resp) ==
    IF resp.StatusCode >= 200 /\ resp.StatusCode <= 299
    THEN NoError
    ELSE Errorf("Invalid response (%d %s)", <<resp.StatusCode, resp.Status>>)

\* Lines 90-96: json.Unmarshal(body, &r) with var r *Response; the
\* PushMessage of a decoded receipt keeps its zero value.
Unmarshal(body) ==
    LET d == Decode(body)
    IN  IF d.r.isNil \/ d.r.Data.isNil THEN d
        ELSE [d EXCEPT !.r.Data =
                 Slice([i \in 1..len(d.r.Data) |->
                          [d.r.Data.items[i] EXCEPT !.PushMessage = ZeroPushMessagePost]])]

\* Lines 116-118: for i, receipt := range r.Data { receipt.PushMessage =
\* messages[i] }.  The loop variable receipt is a copy of r.Data[i]; the
\* assignment changes the copy, and r.Data keeps what it held.
attachToLoopVariable(msgs, data) ==
    LET receipt == [i \in 1..len(data) |->
                       [data.items[i] EXCEPT !.PushMessage = msgs[i]]]
    IN  Slice([i \in 1..len(data) |-> data.items[i]])

\* Lines 69-120.
publishInternalPost(c, msgs, tr) ==
    LET verr == validatePost(msgs, 1)
        jsonBytes == Marshal(msgs)
        sent == Post(c.host, c.apiURL \o "/push/send", "application/json",
                     jsonBytes, tr)
        resp == sent.resp
        d == Unmarshal(resp.Body)
        r == d.r
    IN  IF verr # NoError
        THEN Outcome(NilSlice, verr, <<>>, FALSE, FALSE, msgs)
        ELSE IF sent.err # NoError
        THEN Outcome(NilSlice, sent.err, sent.requests, FALSE, FALSE, msgs)
        ELSE IF checkStatusPost(resp) # NoError
        THEN Outcome(NilSlice, checkStatusPost(resp), sent.requests, FALSE, FALSE, msgs)
        ELSE IF d.err # NoError
        THEN Outcome(NilSlice, d.err, sent.requests, TRUE, FALSE, msgs)
        ELSE IF r.isNil
        \* r.Errors on a nil *Response: nil pointer dereference
        THEN Outcome(NilSlice, NoError, sent.requests, TRUE, TRUE, msgs)
        ELSE IF ~r.Errors.isNil
        THEN Outcome(NilSlice,
                     NewPushServerError(Text("Invalid server response"),
                                        resp, r, r.Errors),
                     sent.requests, TRUE, FALSE, msgs)
        ELSE IF r.Data.isNil
        THEN Outcome(NilSlice,
                     NewPushServerError(Text("Invalid server response"),
                                        resp, r, NilSlice),
                     sent.requests, TRUE, FALSE, msgs)
        ELSE IF Len(msgs) # len(r.Data)
        THEN Outcome(NilSlice,
                     NewPushServerError(
                         Sprintf("Mismatched response length. Expected %d receipts but only received %d",
                                 <<Len(msgs), len(r.Data)>>),
                         resp, r, NilSlice),
                     sent.requests, TRUE, FALSE, msgs)
        ELSE Outcome(attachToLoopVariable(msgs, r.Data), NoError, sent.requests,
                     TRUE, FALSE, msgs)

\* Lines 65-67.
PublishMultiplePost(c, msgs, tr) == publishInternalPost(c, msgs, tr)

\* Lines 53-59: the first receipt of the one-message batch, PushResponse{}
\* with the error when the batch failed.  The result stands in the receipts
\* field of the outcome.
PublishPost(c, message, tr) ==
    LET out == PublishMultiplePost(c, <<message>>, tr)
    IN  IF out.panicked THEN out
        ELSE IF out.err # NoError THEN [out EXCEPT !.receipts = ZeroPushResponse]
        ELSE [out EXCEPT !.receipts = out.receipts.items[1]]

-----------------------------------------------------------------------------
(* The inputs the model draws from *)

\* Two messages that differ in every field but To.
MessageTemplates ==
    { [ZeroPushMessage EXCEPT !.Body = "This is a test notification",
                              !.Data = Map({<<"withSome", "data">>}),
                              !.Sound = "default",
                              !.Title = "Notification Title",
                              !.TTLSeconds = 60,
                              !.Expiration = 1700000000,
                              !.Priority = DefaultPriority,
                              !.Badge = 1,
                              !.ChannelID = "chat"],
      [ZeroPushMessage EXCEPT !.Body = "second", !.Priority = HighPriority] }

\* The token of recipient i of message j: every recipient of a batch has a
\* token of its own.
Token(j, i) == "ExponentPushToken[" \o ToString(j) \o "." \o ToString(i) \o "]"

\* The shape of a message: its template, its number of recipients, and the
\* position of an empty token among them (0: none).
MessageShapes ==
    { s \in [tmpl : MessageTemplates, n : 0..MaxRecipients, blank : 0..MaxRecipients] :
        s.blank <= s.n }

RECURSIVE SumN(_, _)
SumN(shapes, i) == IF i > Len(shapes) THEN 0 ELSE shapes[i].n + SumN(shapes, i + 1)

BatchShapes ==
    { b \in UNION { [1..m -> MessageShapes] : m \in 0..MaxMsgs } :
        SumN(b, 1) <= MaxRecipients }

Materialize(b) ==
    [j \in 1..Len(b) |->
        [b[j].tmpl EXCEPT !.To = [i \in 1..b[j].n |->
                                    IF i = b[j].blank THEN "" ELSE Token(j, i)]]]

\* The batches a caller submits.
Batches == { Materialize(b) : b \in BatchShapes }

\* Receipts as the gateway writes them.
WireOk == [status |-> JString("ok"), message |-> JAbsentString,
           details |-> JAbsentObject]
WireNotRegistered ==
    [status |-> JString("error"),
     message |-> JString("not a registered push notification recipient"),
     details |-> JObject({<<"error", ErrorDeviceNotRegistered>>})]
WireReceipts == {WireOk, WireNotRegistered}

\* The longest data array the gateway answers with: one more than any batch
\* expects.
MaxData == MaxRecipients + 1

WireData == UNION { [1..n -> WireReceipts] : n \in 0..MaxData }
AllOk(n) == [i \in 1..n |-> WireOk]

\* Request-level errors as the gateway writes them.
WireError ==
    JObject({<<"code", "API_ERROR">>, <<"message", "\"to\" must be a string">>})

JsonObject(data, errors) == [kind |-> "object", data |-> data, errors |-> errors]
JsonOther(kind) == [kind |-> kind, data |-> JAbsentArray, errors |-> JAbsentArray]

\* The response bodies: not JSON, a JSON array, null, and envelopes with and
\* without data and errors.
Bodies ==
    {JsonOther("garbage"), JsonOther("array"), JsonOther("null")}
    \cup { JsonObject(d, JAbsentArray) :
             d \in {JAbsentArray, JNullArray} \cup { JArray(w) : w \in WireData } }
    \cup { JsonObject(d, e) :
             d \in {JAbsentArray} \cup { JArray(AllOk(n)) : n \in 0..MaxData },
             e \in {JNullArray, JArray(<<>>), JArray(<<WireError>>)} }

StatusText(code) ==
    CASE code = 200 -> "200 OK"
      [] code = 299 -> "299 "
      [] code = 199 -> "199 "
      [] code = 300 -> "300 Multiple Choices"
      [] code = 401 -> "401 Unauthorized"
      [] code = 403 -> "403 Forbidden"
      [] code = 404 -> "404 Not Found"
      [] code = 500 -> "500 Internal Server Error"

HTTPResponse(code, body) ==
    [StatusCode |-> code, Status |-> StatusText(code), Body |-> body]

\* What c.httpClient.Do returns: an error, or a response.
TransportError ==
    [err |-> [type |-> "net.Error"], resp |-> HTTPResponse(200, JsonOther("garbage"))]
Answered(resp) == [err |-> NoError, resp |-> resp]
\* The call made no request.
NotAsked ==
    [err |-> [type |-> "not asked"], resp |-> HTTPResponse(200, JsonOther("garbage"))]

Transports ==
    {TransportError}
    \cup { Answered(HTTPResponse(200, b)) : b \in Bodies }
    \cup { Answered(HTTPResponse(code, JsonObject(JArray(AllOk(1)), JAbsentArray))) :
             code \in {199, 299, 300, 401, 500} }

Configs ==
    { NilConfig,
      ClientConfig("http://localhost:3000", "/v1", "secret", "customClient"),
      ClientConfig("%zz", "", "", "nil") }

-----------------------------------------------------------------------------
(* The state machine of the multi-recipient client *)

Init ==
    /\ client \in { NewPushClient(cfg) : cfg \in Configs }
    /\ op = "none"
    /\ messages = <<>>
    /\ transport = NotAsked
    /\ requests = <<>>
    /\ decoded = FALSE
    /\ panicked = FALSE
    /\ receipts = NilSlice
    /\ err = NoError
    /\ receiver = 0
    /\ submitted = <<>>
    /\ rawToken = <<>>
    /\ pushToken = <<>>

Returns(name, out, tr) ==
    /\ op' = name
    /\ messages' = out.messages
    /\ transport' = IF out.requests = <<>> THEN NotAsked ELSE tr
    /\ requests' = out.requests
    /\ decoded' = out.decoded
    /\ panicked' = out.panicked
    /\ receipts' = out.receipts
    /\ err' = out.err
    /\ UNCHANGED <<client, receiver, rawToken, pushToken>>

\* The client keeps nothing from one call to the next (its fields are only
\* read), so a behaviour is one call on the constructed client.
CallPublishMultiple ==
    /\ op = "none"
    /\ \E msgs \in Batches, tr \in Transports :
          /\ submitted' = msgs
          /\ Returns("PublishMultiple", PublishMultiple(client, msgs, tr), tr)

CallPublish ==
    /\ op = "none"
    /\ \E msgs \in Batches, tr \in Transports :
          /\ Len(msgs) = 1
          /\ submitted' = msgs
          /\ Returns("Publish", Publish(client, msgs[1], tr), tr)

Next == CallPublishMultiple \/ CallPublish

Spec == Init /\ [][Next]_vars

-----------------------------------------------------------------------------
(* The state machine of the client with a URL override *)

\* The status codes the transport answers with.
StatusCodes == {199, 200, 299, 300, 401, 403, 404, 500}

TransportsURL ==
    {TransportError}
    \cup { Answered(HTTPResponse(200, b)) : b \in Bodies }
    \cup { Answered(HTTPResponse(code, b)) :
             code \in StatusCodes,
             b \in {JsonOther("garbage"), JsonOther("null"),
                    JsonObject(JArray(AllOk(1)), JAbsentArray),
                    JsonObject(JAbsentArray, JArray(<<WireError>>))} }

ConfigsURL ==
    { NilConfigURL,
      ClientConfigURL("http://localhost:3000", "/v1", "secret", "customClient", ""),
      ClientConfigURL("", "", "", "nil", "http://localhost:3000/send") }

InitURL ==
    /\ client \in { NewPushClientURL(cfg) : cfg \in ConfigsURL }
    /\ op = "none"
    /\ messages = <<>>
    /\ transport = NotAsked
    /\ requests = <<>>
    /\ decoded = FALSE
    /\ panicked = FALSE
    /\ receipts = NilSlice
    /\ err = NoError
    /\ receiver = 0
    /\ submitted = <<>>
    /\ rawToken = <<>>
    /\ pushToken = <<>>

CallPublishMultipleURL ==
    /\ op = "none"
    /\ \E msgs \in Batches, tr \in TransportsURL :
          /\ submitted' = msgs
          /\ Returns("PublishMultiple", PublishMultipleURL(client, msgs, tr), tr)

CallPublishURL ==
    /\ op = "none"
    /\ \E msgs \in Batches, tr \in TransportsURL :
          /\ Len(msgs) = 1
          /\ submitted' = msgs
          /\ Returns("Publish", PublishURL(client, msgs[1], tr), tr)

NextURL == CallPublishMultipleURL \/ CallPublishURL

SpecURL == InitURL /\ [][NextURL]_vars

-----------------------------------------------------------------------------
(* The state machine of receipt validation *)

DetailsInputs ==
    {NilMap, Map({})}
    \cup { Map({<<"error", c>>}) :
             c \in {ErrorDeviceNotRegistered, ErrorMessageTooBig,
                    ErrorMessageRateExceeded, "InvalidCredentials", ""} }
    \cup { Map({<<"fault", ErrorDeviceNotRegistered>>}),
           Map({<<"error", ErrorMessageTooBig>>, <<"fault", ErrorDeviceNotRegistered>>}) }

\* The receipts a caller validates.
ReceiptInputs ==
    { PushResponse(ZeroPushMessage, st, msg, dt) :
        st \in {SuccessStatus, "error", "", "OK"},
        msg \in {"", "failed"},
        dt \in DetailsInputs }

\* The caller holds two receipts; the second one is a failure with a text of
\* its own.
InitValidate ==
    /\ client = NewPushClient(NilConfig)
    /\ op = "none"
    /\ messages = <<>>
    /\ transport = NotAsked
    /\ requests = <<>>
    /\ decoded = FALSE
    /\ panicked = FALSE
    /\ receipts \in { Slice(<<r, PushResponse(ZeroPushMessage, "error", "other", NilMap)>>) :
                        r \in ReceiptInputs }
    /\ err = NoError
    /\ receiver = 0
    /\ submitted = <<>>
    /\ rawToken = <<>>
    /\ pushToken = <<>>

\* The caller validates one of its receipts.
ValidateResponseCall ==
    /\ op = "none"
    /\ \E i \in 1..len(receipts) :
          /\ receiver' = i
          /\ err' = ValidateResponse(receipts.items, Pointer(i))
    /\ op' = "ValidateResponse"
    /\ UNCHANGED <<client, messages, transport, requests, decoded, panicked,
                   receipts, submitted, rawToken, pushToken>>

NextValidate == ValidateResponseCall

SpecValidate == InitValidate /\ [][NextValidate]_vars

-----------------------------------------------------------------------------
(* The state machine of token construction *)

\* "ExponentPushToken[abc]"
SampleToken == TokenPrefix \o <<"[", "a", "b", "c", "]">>

\* The strings a caller passes: the sample cut short at every length, each
\* cut with one character replaced or with one character put in front, and
\* "abc".
RawTokens ==
    LET cuts == { SubSeq(SampleToken, 1, n) : n \in 0..Len(SampleToken) }
    IN  cuts
        \cup { [s EXCEPT ![p] = ch] :
                 <<s, p, ch>> \in { <<t, q, c>> \in cuts \X (1..Len(SampleToken)) \X {"x", "e"} :
                                      q <= Len(t) } }
        \cup { <<ch>> \o s : s \in cuts, ch \in {" ", "E"} }
        \cup { <<"a", "b", "c">> }

InitToken ==
    /\ client = NewPushClient(NilConfig)
    /\ op = "none"
    /\ messages = <<>>
    /\ transport = NotAsked
    /\ requests = <<>>
    /\ decoded = FALSE
    /\ panicked = FALSE
    /\ receipts = NilSlice
    /\ err = NoError
    /\ receiver = 0
    /\ submitted = <<>>
    /\ rawToken = <<>>
    /\ pushToken = <<>>

NewExponentPushTokenCall ==
    /\ op = "none"
    /\ \E token \in RawTokens :
          LET out == NewExponentPushToken(token)
          IN  /\ rawToken' = token
              /\ pushToken' = out.token
              /\ err' = out.err
    /\ op' = "NewExponentPushToken"
    /\ UNCHANGED <<client, messages, transport, requests, decoded, panicked,
                   receipts, receiver, submitted>>

NextToken == NewExponentPushTokenCall

SpecToken == InitToken /\ [][NextToken]_vars

-----------------------------------------------------------------------------
(* The state machine of the single-token client *)

\* The messages a caller builds: each template with a token or without one.
MessagesPost ==
    { [t EXCEPT !.To = tok] : t \in MessageTemplates, tok \in {"", Token(1, 1)} }

\* The batches a caller submits.
BatchesPost == UNION { [1..m -> MessagesPost] : m \in 0..MaxMsgs }

ConfigsPost ==
    { NilConfigPost,
      ClientConfigPost("http://localhost:3000", "/v1"),
      ClientConfigPost("%zz", "") }

InitPost ==
    /\ client \in { NewPushClientPost(cfg) : cfg \in ConfigsPost }
    /\ op = "none"
    /\ messages = <<>>
    /\ transport = NotAsked
    /\ requests = <<>>
    /\ decoded = FALSE
    /\ panicked = FALSE
    /\ receipts = NilSlice
    /\ err = NoError
    /\ receiver = 0
    /\ submitted = <<>>
    /\ rawToken = <<>>
    /\ pushToken = <<>>

CallPublishMultiplePost ==
    /\ op = "none"
    /\ \E msgs \in BatchesPost, tr \in Transports :
          /\ submitted' = msgs
          /\ Returns("PublishMultiple", PublishMultiplePost(client, msgs, tr), tr)

CallPublishPost ==
    /\ op = "none"
    /\ \E message \in MessagesPost, tr \in Transports :
          /\ submitted' = <<message>>
          /\ Returns("Publish", PublishPost(client, message, tr), tr)

NextPost == CallPublishMultiplePost \/ CallPublishPost

SpecPost == InitPost /\ [][NextPost]_vars

-----------------------------------------------------------------------------
(* What the claims speak of *)

\* The number of recipient tokens of a batch, over all its messages.
RECURSIVE TotalRecipients(_)
TotalRecipients(msgs) ==
    IF msgs = <<>> THEN 0 ELSE Len(Head(msgs).To) + TotalRecipients(Tail(msgs))

\* The number of recipients of the messages before message j.
Offset(msgs, j) == TotalRecipients(SubSeq(msgs, 1, j - 1))

RecipientCounts(msgs) == [j \in 1..Len(msgs) |-> Len(msgs[j].To)]

\* Some message has no recipient, or some token is empty.
InvalidBatch(msgs) ==
    \E j \in 1..Len(msgs) :
        \/ Len(msgs[j].To) = 0
        \/ \E k \in 1..Len(msgs[j].To) : msgs[j].To[k] = ""

Called == op = "PublishMultiple"
\* The call returned, and returned no error.
Succeeded == Called /\ ~panicked /\ err = NoError
\* The call returned an error.
Failed == Called /\ ~panicked /\ err # NoError
\* The transport answered the call's request with a response.
Answered2xx ==
    /\ Called /\ requests # <<>> /\ transport.err = NoError
    /\ transport.resp.StatusCode \in 200..299
\* The envelope the call parsed out of a 2xx response.
Envelope == Decode(transport.resp.Body).r
Parsed == Answered2xx /\ Decode(transport.resp.Body).err = NoError /\ ~Envelope.isNil

ValidationError ==
    /\ err.type = "errorString"
    /\ err.Message \in {Text("No recipients"), Text("Invalid push token")}

MismatchFormat ==
    "Mismatched response length. Expected %d receipts but only received %d"
MismatchedCountError ==
    /\ err.type = "PushServerError"
    /\ err.Message.format = MismatchFormat
\* The two errors with the text "Invalid server response": the request-level
\* error carries error entries, the malformed-response error carries none.
GatewayRequestError ==
    /\ err.type = "PushServerError"
    /\ err.Message = Text("Invalid server response")
    /\ len(err.Errors) > 0
MalformedResponseError ==
    /\ err.type = "PushServerError"
    /\ err.Message = Text("Invalid server response")
    /\ len(err.Errors) = 0

-----------------------------------------------------------------------------
(* The claims *)

\* C1: whenever PublishMultiple returns without error, the number of receipts
\* it returns is the sum, over the messages of the batch, of the number of
\* recipient tokens of each.
C1_ReceiptCount ==
    Succeeded => len(receipts) = TotalRecipients(messages)

\* A successful call for a batch with recipient counts [2,1].
C1_Witness ==
    Succeeded /\ RecipientCounts(messages) = <<2, 1>> /\ len(receipts) = 3

\* C2: on success, the receipt of the k-th recipient of message j (receipt
\* Offset + k in flattening order) refers to a copy of message j that equals
\* it in every field but To, which holds exactly that one token.
C2_BackReference ==
    Succeeded =>
        \A j \in 1..Len(messages) : \A k \in 1..Len(messages[j].To) :
            LET i == Offset(messages, j) + k
            IN  /\ i <= len(receipts)
                /\ receipts.items[i].PushMessage =
                       [messages[j] EXCEPT !.To = <<messages[j].To[k]>>]

\* Recipient counts [2,1] with two different messages: receipts 1 and 2 refer
\* to message 1 with its first and second token, receipt 3 to message 2.
C2_Witness ==
    /\ Succeeded /\ RecipientCounts(messages) = <<2, 1>>
    /\ messages[1].Body # messages[2].Body
    /\ receipts.items[1].PushMessage.To = <<messages[1].To[1]>>
    /\ receipts.items[2].PushMessage.To = <<messages[1].To[2]>>
    /\ receipts.items[2].PushMessage.Body = messages[1].Body
    /\ receipts.items[3].PushMessage.To = <<messages[2].To[1]>>
    /\ receipts.items[3].PushMessage.Body = messages[2].Body

\* C3: when a 2xx response carries a data array (and no errors) whose length
\* differs from the number of recipients of the batch, the call fails with
\* the mismatched-count error, which reports the number of recipients as the
\* expected count and the length of the array as the received count, and
\* returns no receipts.
C3_MismatchReportsCounts ==
    (/\ Parsed /\ Envelope.Errors.isNil /\ ~Envelope.Data.isNil
     /\ len(Envelope.Data) # TotalRecipients(messages))
    => /\ Failed /\ MismatchedCountError
       /\ err.Message.args = <<TotalRecipients(messages), len(Envelope.Data)>>
       /\ receipts.isNil

\* C4: a batch in which some message has no recipient or some token is empty
\* fails with a validation error, returns no receipts, and issues no HTTP
\* request.
C4_ValidationBeforeNetwork ==
    (Called /\ InvalidBatch(messages))
    => /\ Failed /\ ValidationError
       /\ receipts.isNil
       /\ requests = <<>> /\ ~decoded

\* A valid message followed by one with an empty token.
C4_Witness ==
    /\ Called /\ Len(messages) = 2
    /\ ~InvalidBatch(<<messages[1]>>)
    /\ Len(messages[2].To) = 2 /\ messages[2].To[2] = ""
    /\ err = ErrorsNew("Invalid push token")

\* C5: whenever the envelope parsed out of a 2xx response carries a non-empty
\* errors list, with or without a data array of any length, the call fails
\* with the request-level error that carries exactly those entries and the
\* parsed envelope, returns no receipts, and the error is neither the
\* malformed-response nor the mismatched-count error.
C5_RequestErrors ==
    (Parsed /\ len(Envelope.Errors) > 0)
    => /\ Failed /\ GatewayRequestError
       /\ err.Errors.items =
              [i \in 1..Len(transport.resp.Body.errors.value) |->
                  Map(transport.resp.Body.errors.value[i].value)]
       /\ err.ResponseData = Envelope
       /\ receipts.isNil
       /\ ~MalformedResponseError /\ ~MismatchedCountError

\* Errors together with a data array of just the expected length.
C5_Witness ==
    /\ Parsed /\ len(Envelope.Errors) > 0
    /\ ~Envelope.Data.isNil
    /\ TotalRecipients(messages) > 0
    /\ len(Envelope.Data) = TotalRecipients(messages)
    /\ GatewayRequestError

\* C6: whenever the envelope parsed out of a 2xx response has no data and no
\* non-empty errors list (errors absent, null or empty), the call fails with
\* the malformed-response error, which carries no error entries, and returns
\* no receipts.
C6_MalformedResponse ==
    (Parsed /\ Envelope.Data.isNil /\ len(Envelope.Errors) = 0)
    => /\ Failed /\ MalformedResponseError /\ ~GatewayRequestError
       /\ receipts.isNil

\* An envelope with neither data nor errors, for a batch that has recipients.
C6_Witness ==
    /\ Parsed /\ TotalRecipients(messages) > 0
    /\ transport.resp.Body.data.kind = "absent"
    /\ transport.resp.Body.errors.kind = "absent"
    /\ MalformedResponseError

\* The same envelope with an empty errors list.
C6_WitnessEmptyErrors ==
    /\ Parsed /\ transport.resp.Body.data.kind = "absent"
    /\ transport.resp.Body.errors = JArray(<<>>)
    /\ MalformedResponseError

\* What kind of end a call took: a panic, a return without error, or the kind
\* of error it returned.
OutcomeKind(pan, e) ==
    [panicked |-> pan, type |-> e.type,
     text |-> IF e.type \in {"errorString", "PushServerError"}
              THEN e.Message.format ELSE ""]

\* The response of the state with the receipts of its data array replaced.
WithReceipts(w) ==
    Answered([transport.resp EXCEPT !.Body.data = JArray(w)])

\* C9: the end a call takes does not depend on the status, message or details
\* of any receipt: every response with the same HTTP status, the same errors
\* and as many receipts makes the call end the same way; and a 2xx response
\* with as many receipts as recipients makes the call succeed and return all
\* of them as they were sent, successes or not.
C9_ReceiptContentIrrelevant ==
    (/\ Called /\ requests # <<>> /\ transport.err = NoError
     /\ transport.resp.Body.kind = "object"
     /\ transport.resp.Body.data.kind = "array")
    => LET sent == transport.resp.Body.data.value
       IN  /\ \A w \in [1..Len(sent) -> WireReceipts] :
                  LET out == PublishMultiple(client, messages, WithReceipts(w))
                  IN  OutcomeKind(out.panicked, out.err) = OutcomeKind(panicked, err)
           /\ (/\ transport.resp.StatusCode \in 200..299
               /\ transport.resp.Body.errors.kind \in {"absent", "null"}
               /\ Len(sent) = TotalRecipients(messages))
              => /\ Succeeded
                 /\ len(receipts) = Len(sent)
                 /\ \A i \in 1..Len(sent) :
                        /\ receipts.items[i].Status = DecodeString(sent[i].status)
                        /\ receipts.items[i].Message = DecodeString(sent[i].message)
                        /\ receipts.items[i].Details = DecodeMap(sent[i].details)

\* A successful call that returns a failed receipt after a successful one:
\* the failure shows only when the caller validates the receipt.
C9_Witness ==
    /\ Succeeded /\ len(receipts) >= 2
    /\ receipts.items[1].Status = SuccessStatus
    /\ receipts.items[2].Status = "error"
    /\ ValidateResponse(receipts.items, Pointer(1)) = NoError
    /\ ValidateResponse(receipts.items, Pointer(2)).type = "DeviceNotRegisteredError"

\* The request of the call can be built: http.NewRequest accepts its URL.
RequestBuilds ==
    NewRequest(client.host, client.apiURL \o "/push/send", Marshal(messages)).err
        = NoError

\* Publish or PublishMultiple ran.
Published == op \in {"Publish", "PublishMultiple"}

\* C10 as stated: a Publish or PublishMultiple call issues at most one HTTP
\* request, exactly one when the batch passes validation and none when it
\* does not.
C10_OneRequestIffValid ==
    Published => /\ Len(requests) <= 1
                 /\ ~InvalidBatch(messages) => Len(requests) = 1
                 /\ InvalidBatch(messages) => Len(requests) = 0

\* C10, amended: a Publish or PublishMultiple call issues at most one HTTP
\* request, exactly one when the batch passes validation and the request can
\* be built, none otherwise; a call that returns an error after its request
\* has issued no second one.
C10_AtMostOneRequest ==
    Published =>
        /\ Len(requests) <= 1
        /\ (~InvalidBatch(messages) /\ RequestBuilds) => Len(requests) = 1
        /\ (InvalidBatch(messages) \/ ~RequestBuilds) => Len(requests) = 0
        /\ (err # NoError /\ ~InvalidBatch(messages) /\ RequestBuilds)
               => ~panicked /\ receipts.isNil /\ Len(requests) = 1

\* A call whose one request met a network error.
C10_Witness ==
    /\ Published /\ err # NoError /\ transport = TransportError /\ err = TransportError.err
    /\ Len(requests) = 1 /\ TotalRecipients(messages) = 3

\* The two status errors of the client with a URL override.
AuthenticationFailure ==
    /\ err.type = "errorString"
    /\ err.Message = Sprintf("invalid access token %s", <<transport.resp.StatusCode>>)
GenericStatusError ==
    /\ err.type = "errorString"
    /\ err.Message = Sprintf("invalid response %s", <<transport.resp.Status>>)
StatusError ==
    /\ err.type = "errorString"
    /\ err.Message.format \in {"invalid access token %s", "invalid response %s"}

\* C7: for every status code the transport answers with, a status in 200..299
\* is never reported as a status error, 401 and 403 fail the call with the
\* authentication-failure error, every other status fails it with the generic
\* status error, and in both failures the body is never parsed.
C7_StatusClassification ==
    (Called /\ requests # <<>> /\ transport.err = NoError)
    => LET code == transport.resp.StatusCode
       IN  /\ code \in 200..299 => ~StatusError
           /\ code \in {401, 403}
                 => Failed /\ AuthenticationFailure /\ ~decoded /\ receipts.isNil
           /\ (code \notin 200..299 /\ code \notin {401, 403})
                 => Failed /\ GenericStatusError /\ ~decoded /\ receipts.isNil

\* A 403 whose body would have parsed into a matching envelope.
C7_Witness ==
    /\ Called /\ transport.resp.StatusCode = 403
    /\ transport.resp.Body = JsonObject(JArray(AllOk(1)), JAbsentArray)
    /\ Len(messages) = 1 /\ TotalRecipients(messages) = 1
    /\ AuthenticationFailure /\ ~decoded

\* The error code in the details of a receipt, if it has one.
HasCode(r, code) == ~r.Details.isNil /\ <<"error", code>> \in r.Details.items

\* C8: ValidateResponse returns no error exactly when the status is "ok",
\* whatever the details; otherwise it returns DeviceNotRegisteredError,
\* MessageTooBigError or MessageRateExceededError exactly when
\* details["error"] is the matching code and the generic PushResponseError
\* for nil details, empty details and any other code; every error refers to
\* the receipt that was validated and its text is that receipt's message.
C8_ValidateResponse ==
    op = "ValidateResponse"
    => LET r == receipts.items[receiver]
       IN  /\ err = NoError <=> r.Status = "ok"
           /\ r.Status # "ok" =>
                 /\ err.type = "DeviceNotRegisteredError"
                       <=> HasCode(r, "DeviceNotRegistered")
                 /\ err.type = "MessageTooBigError"
                       <=> HasCode(r, "MessageTooBig")
                 /\ err.type = "MessageRateExceededError"
                       <=> HasCode(r, "MessageRateExceeded")
                 /\ err.type = "PushResponseError"
                       <=> ~\E c \in {"DeviceNotRegistered", "MessageTooBig",
                                       "MessageRateExceeded"} : HasCode(r, c)
                 /\ err.Response = Pointer(receiver)
                 /\ Error(receipts.items, err) = r.Message

\* A failed receipt with the code MessageRateExceeded and a text.
C8_Witness ==
    /\ op = "ValidateResponse" /\ receiver = 1
    /\ receipts.items[1].Status = "error"
    /\ receipts.items[1].Message = "failed"
    /\ HasCode(receipts.items[1], "MessageRateExceeded")
    /\ err = [type |-> "MessageRateExceededError", Response |-> Pointer(1)]

\* C11: Publish of one message with N recipients returns what PublishMultiple
\* returns for the batch of that one message: on success the same receipts,
\* N of them, the k-th one for the k-th recipient; on failure nil receipts
\* and the same error.
C11_PublishAsPublishMultiple ==
    op = "Publish"
    => LET out == PublishMultiple(client, messages, transport)
       IN  /\ Len(messages) = 1
           /\ panicked = out.panicked
           /\ err = out.err
           /\ (~panicked /\ err = NoError) =>
                 /\ receipts = out.receipts
                 /\ len(receipts) = Len(messages[1].To)
                 /\ \A k \in 1..len(receipts) :
                       receipts.items[k].PushMessage.To = <<messages[1].To[k]>>
           /\ err # NoError => receipts.isNil

\* A successful Publish of a message with three recipients, and a Publish
\* that failed on the status of the response.
C11_Witness ==
    /\ op = "Publish" /\ ~panicked /\ err = NoError
    /\ Len(messages[1].To) = 3 /\ len(receipts) = 3
    /\ receipts.items[3].PushMessage.To = <<messages[1].To[3]>>

C11_WitnessFailure ==
    /\ op = "Publish" /\ err # NoError /\ receipts.isNil
    /\ requests # <<>> /\ transport.err = NoError

\* The string starts with the characters of "ExponentPushToken".
StartsWithExponentPushToken(s) ==
    /\ Len(s) >= 17
    /\ \A i \in 1..17 : s[i] = TokenPrefix[i]

\* C12: NewExponentPushToken succeeds exactly when the string starts with
\* "ExponentPushToken"; then it returns the string unchanged and no error,
\* otherwise the empty token and ErrMalformedToken.  "ExponentPushToken[abc]"
\* succeeds, "abc" and the empty string fail.
C12_NewExponentPushToken ==
    op = "NewExponentPushToken"
    => /\ err = NoError <=> StartsWithExponentPushToken(rawToken)
       /\ err = NoError => pushToken = rawToken
       /\ err # NoError => pushToken = <<>> /\ err = ErrMalformedToken
       /\ rawToken = SampleToken => err = NoError
       /\ rawToken \in {<<"a", "b", "c">>, <<>>} => err = ErrMalformedToken

\* "ExponentPushToken[abc]" comes back as the token, and " ExponentPushToken"
\* with a space in front is refused.
C12_Witness ==
    /\ op = "NewExponentPushToken" /\ rawToken = SampleToken
    /\ pushToken = SampleToken /\ err = NoError

C12_WitnessRefused ==
    /\ op = "NewExponentPushToken" /\ rawToken = <<" ">> \o TokenPrefix
    /\ pushToken = <<>> /\ err = ErrMalformedToken

\* C13: in the single-token client, after a successful PublishMultiple the
\* PushMessage of receipt i is input message i, and after a successful
\* Publish(m) the To of the returned receipt's PushMessage is m's token.
C13_ReceiptsReferToMessages ==
    /\ (op = "PublishMultiple" /\ ~panicked /\ err = NoError)
       => \A i \in 1..len(receipts) : receipts.items[i].PushMessage = messages[i]
    /\ (op = "Publish" /\ ~panicked /\ err = NoError)
       => receipts.PushMessage.To = messages[1].To

\* C14: in the client with a URL override, when a 2xx response carries a
\* data array and no errors, PublishMultiple fails with the mismatched-count
\* error exactly when the length of the array differs from the number of
\* recipient tokens of the batch; when the two are equal (as for a message
\* with two recipients answered with two receipts) the call succeeds and
\* returns every receipt.
C14_MismatchIffRecipientCountDiffers ==
    (Parsed /\ Envelope.Errors.isNil /\ ~Envelope.Data.isNil)
    => /\ (Failed /\ MismatchedCountError)
             <=> len(Envelope.Data) # TotalRecipients(messages)
       /\ len(Envelope.Data) = TotalRecipients(messages)
             => Succeeded /\ len(receipts) = len(Envelope.Data)

\* C15: for every response with a 2xx status, whatever its body,
\* PublishMultiple returns either a non-nil receipt list and no error, or no
\* receipts and an error; it never faults and never returns both or neither.
C15_TwoOutcomes ==
    Answered2xx
    => /\ ~panicked
       /\ \/ ~receipts.isNil /\ err = NoError
          \/ receipts.isNil /\ err # NoError

\* C16: a call of Publish or PublishMultiple, successful or failed, leaves
\* the caller's batch as it was submitted (every message with its recipient
\* list and its field values: the narrowing to one token is done on the copy
\* in each receipt) and leaves the client's host, API path, credential and
\* transport as they were.
C16_CallerBatchAndClientUnchanged ==
    [][op' \in {"Publish", "PublishMultiple"}
         => /\ messages' = submitted'
            /\ client' = client]_vars

\* A successful call for a message with two recipients: the receipts refer to
\* one token each, the message still has both.
C16_Witness ==
    /\ Succeeded /\ RecipientCounts(submitted) = <<2, 1>>
    /\ receipts.items[1].PushMessage.To = <<submitted[1].To[1]>>
    /\ receipts.items[2].PushMessage.To = <<submitted[1].To[2]>>
    /\ messages = submitted /\ Len(messages[1].To) = 2
    /\ client = NewPushClient(ClientConfig("http://localhost:3000", "/v1", "secret",
                                            "customClient"))

\* A call that failed after its request was answered.
C16_WitnessFailed ==
    /\ Failed /\ requests # <<>> /\ RecipientCounts(submitted) = <<2, 1>>
    /\ messages = submitted

====
